---- MODULE Spec2Model ----
(***************************************************************************)
(* Proxy profile state manager of proxy_toggle_pro.py: the profile list    *)
(* held by ProxyToggleWidget, the config file of ProxyConfig and the       *)
(* Windows registry proxy pair of ProxyManager.                            *)
(*                                                                         *)
(* List indices are 1-based here (Python index + 1).  A Python value that  *)
(* is either None or a string is a record [some, val]; None has           *)
(* some = FALSE.  Registry and file operations can raise; the exception    *)
(* that the code catches is chosen by a fault parameter of the operator.   *)
(***************************************************************************)
EXTENDS Integers, Sequences, FiniteSets, TLC

\* ---------------------------------------------------------------- bounds
MaxProfiles == 3

\* ------------------------------------------------------------- constants
OfficeServer == "http://proxy-example.corp.com:912"
VpnServer == "http://vpn-proxy.example.com:8080"
ForeignServer == "http://other.example.net:3128"

DEFAULT_PROXIES ==
  << [name |-> "Office Proxy", server |-> OfficeServer, enabled |-> FALSE],
     [name |-> "VPN Proxy", server |-> VpnServer, enabled |-> FALSE] >>

\* Profiles a hand-edited config file is built from ("enabled": false, as
\* the settings dialog advises); the third one has an empty server string.
ProfilePool ==
  << DEFAULT_PROXIES[1], DEFAULT_PROXIES[2],
     [name |-> "Direct", server |-> "", enabled |-> FALSE] >>

\* The profile lists of at most n entries over the pool, repetitions
\* included.  The code uses a profile's position only as its identity, so
\* the lists are enumerated up to reordering (in pool order).
RECURSIVE ListsUpTo(_)
ListsUpTo(n) ==
  IF n = 0 THEN { << >> }
  ELSE LET shorter == ListsUpTo(n - 1)
       IN shorter \cup
          { Append(s, k) : s \in { t \in shorter : Len(t) = n - 1 },
                           k \in 1..Len(ProfilePool) }
ProfileLists ==
  { [i \in 1..Len(s) |-> ProfilePool[s[i]]] :
      s \in { t \in ListsUpTo(MaxProfiles) :
                \A i \in 1..Len(t) - 1 : t[i] <= t[i + 1] } }

\* What CONFIG_FILE can hold: nothing, text json.load rejects, JSON that
\* is not a list of profile objects (the number 42), or a profile list.
AbsentFile == [kind |-> "absent", data |-> << >>]
UnparseableFile == [kind |-> "unparseable", data |-> << >>]
NumberFile == [kind |-> "number", data |-> << >>]
ListFile(list) == [kind |-> "list", data |-> list]

FileContents ==
  { AbsentFile, UnparseableFile, NumberFile }
    \cup { ListFile(l) : l \in ProfileLists }

RegistryServers == { "", OfficeServer, VpnServer, ForeignServer }

None == [some |-> FALSE, val |-> ""]
Some(s) == [some |-> TRUE, val |-> s]
\* Python truthiness of an Optional[str]
Truthy(x) == x.some /\ x.val # ""

SetFaults == { "none", "OpenKey", "SetValueEx_ProxyServer", "InternetSetOption" }
SaveFaults == { "none", "open" }

VARIABLES pc, proxies, proxy_toggles, ProxyEnable, ProxyServer, config_file, last

vars == << pc, proxies, proxy_toggles, ProxyEnable, ProxyServer, config_file, last >>

\* The record of the call that returned last (history, not program state).
NoCall ==
  [ op |-> "none", index |-> 0, toggled |-> FALSE, arg |-> None,
    writes |-> 0, ret |-> FALSE, log |-> << >>, saves |-> 0, saved |-> FALSE,
    stepped |-> << >>, reads |-> 0, cur |-> None,
    loadKind |-> "n/a", loaded |-> "n/a", raised |-> "no",
    streak |-> 0, clean |-> FALSE ]

\* The state the methods work on, as one record.
World ==
  [ proxies |-> proxies, proxy_toggles |-> proxy_toggles,
    ProxyEnable |-> ProxyEnable, ProxyServer |-> ProxyServer,
    config_file |-> config_file, last |-> last ]

\* ---------------------------------------------------------- ProxyConfig
\* ProxyConfig.save_proxies: overwrite the file with the list; an
\* exception is printed and swallowed.
save_proxies(w, list, fault) ==
  LET file == CASE fault = "none" -> ListFile(list)
                [] OTHER -> w.config_file
  IN [w EXCEPT !.config_file = file,
               !.last.saves = @ + 1,
               !.last.saved = (fault = "none")]

\* ProxyConfig.load_proxies: returns [w, value]; value is what the caller
\* gets, a file-content record (a list or the number).
load_proxies(w, openFails, saveFault) ==
  IF w.config_file.kind # "absent"
  THEN IF openFails \/ w.config_file.kind = "unparseable"
       THEN [w |-> [w EXCEPT !.last.loaded = "defaults"],
             value |-> ListFile(DEFAULT_PROXIES)]
       ELSE [w |-> [w EXCEPT !.last.loaded = "content"],
             value |-> w.config_file]
  ELSE [w |-> [save_proxies(w, DEFAULT_PROXIES, saveFault)
                 EXCEPT !.last.loaded = "defaults"],
        value |-> ListFile(DEFAULT_PROXIES)]

\* --------------------------------------------------------- ProxyManager
\* get_current_proxy without the ProxyEnable test
get_current_proxy_any(w, fault) ==
  IF fault THEN None ELSE Some(w.ProxyServer)

\* ProxyManager.get_current_proxy
get_current_proxy(w, fault) ==
  IF fault THEN None
  ELSE IF w.ProxyEnable # 0 THEN Some(w.ProxyServer) ELSE None

\* set_proxy returning before the InternetSetOption calls
set_proxy_silent(w, proxy_server, fault) ==
  LET en == IF Truthy(proxy_server) THEN 1 ELSE 0
      srv == IF Truthy(proxy_server) THEN proxy_server.val ELSE ""
      w0 == [w EXCEPT !.last.writes = @ + 1, !.last.arg = proxy_server]
  IN CASE fault = "OpenKey" ->
            [w0 EXCEPT !.last.ret = FALSE, !.last.log = << >>]
       [] fault = "SetValueEx_ProxyServer" ->
            [w0 EXCEPT !.ProxyEnable = en,
                       !.last.ret = FALSE,
                       !.last.log = << "ProxyEnable" >>]
       [] OTHER ->
            [w0 EXCEPT !.ProxyEnable = en, !.ProxyServer = srv,
                       !.last.ret = TRUE,
                       !.last.log = << "ProxyEnable", "ProxyServer" >>]

\* ProxyManager.set_proxy
set_proxy(w, proxy_server, fault) ==
  LET en == IF Truthy(proxy_server) THEN 1 ELSE 0
      srv == IF Truthy(proxy_server) THEN proxy_server.val ELSE ""
      w0 == [w EXCEPT !.last.writes = @ + 1, !.last.arg = proxy_server]
  IN CASE fault = "OpenKey" ->
            [w0 EXCEPT !.last.ret = FALSE, !.last.log = << >>]
       [] fault = "SetValueEx_ProxyServer" ->
            [w0 EXCEPT !.ProxyEnable = en,
                       !.last.ret = FALSE,
                       !.last.log = << "ProxyEnable" >>]
       [] fault = "InternetSetOption" ->
            [w0 EXCEPT !.ProxyEnable = en, !.ProxyServer = srv,
                       !.last.ret = FALSE,
                       !.last.log = << "ProxyEnable", "ProxyServer" >>]
       [] OTHER ->
            [w0 EXCEPT !.ProxyEnable = en, !.ProxyServer = srv,
                       !.last.ret = TRUE,
                       !.last.log = << "ProxyEnable", "ProxyServer",
                                       "SETTINGS_CHANGED", "REFRESH" >>]

\* --------------------------------------------------------- ModernToggle
\* set_state that never redraws to the new state
set_state_stuck(is_on, state) == is_on

\* ModernToggle.set_state
set_state(is_on, state) == IF is_on # state THEN state ELSE is_on

\* ----------------------------------------------------- ProxyToggleWidget
\* is_active of update_ui (line 409)
is_active(current_proxy, proxy) ==
  IF Truthy(current_proxy) THEN current_proxy.val = proxy.server ELSE FALSE

\* update_ui that also saves the refreshed list
update_ui_saving(w, readFault) ==
  LET current_proxy == get_current_proxy(w, readFault)
      n == Len(w.proxies)
      refreshed == [i \in 1..n |-> [w.proxies[i] EXCEPT
                      !.enabled = is_active(current_proxy, w.proxies[i])]]
  IN [w EXCEPT
        !.proxy_toggles =
           [i \in 1..n |-> set_state(w.proxy_toggles[i],
                                     is_active(current_proxy, w.proxies[i]))],
        !.proxies = refreshed,
        !.config_file = ListFile(refreshed),
        !.last.reads = @ + 1,
        !.last.cur = current_proxy]

\* ProxyToggleWidget.update_ui
update_ui(w, readFault) ==
  LET current_proxy == get_current_proxy(w, readFault)
      n == Len(w.proxies)
  IN [w EXCEPT
        !.proxy_toggles =
           [i \in 1..n |-> set_state(w.proxy_toggles[i],
                                     is_active(current_proxy, w.proxies[i]))],
        !.proxies =
           [i \in 1..n |-> [w.proxies[i] EXCEPT
                              !.enabled = is_active(current_proxy, w.proxies[i])]],
        !.last.reads = @ + 1,
        !.last.cur = current_proxy]

\* toggle_proxy, lines 384-387: turn off all other proxies
turn_off_others(w, index) ==
  LET n == Len(w.proxies)
  IN [w EXCEPT
        !.proxies = [i \in 1..n |-> IF i # index
                                    THEN [w.proxies[i] EXCEPT !.enabled = FALSE]
                                    ELSE w.proxies[i]],
        !.proxy_toggles = [i \in 1..n |-> IF i # index
                                          THEN set_state(w.proxy_toggles[i], FALSE)
                                          ELSE w.proxy_toggles[i]]]

\* line 390 as an unconditional "turn on"
toggle_selected_on(enabled) == TRUE

\* toggle_proxy, line 390: toggle selected proxy
toggle_selected(enabled) == ~enabled

\* ProxyToggleWidget.toggle_proxy
toggle_proxy(w, index, setFault, saveFault, readFault) ==
  LET w1 == turn_off_others(w, index)
      w2 == [w1 EXCEPT !.proxies[index].enabled = toggle_selected(@)]
      w3 == IF w2.proxies[index].enabled
            THEN set_proxy(w2, Some(w2.proxies[index].server), setFault)
            ELSE set_proxy(w2, None, setFault)
      w4 == save_proxies(w3, w3.proxies, saveFault)
      w5 == [w4 EXCEPT !.last.toggled = w2.proxies[index].enabled,
                       !.last.stepped = [i \in 1..Len(w2.proxies) |->
                                           w2.proxies[i].enabled]]
  IN update_ui(w5, readFault)

Commit(w) ==
  /\ proxies' = w.proxies
  /\ proxy_toggles' = w.proxy_toggles
  /\ ProxyEnable' = w.ProxyEnable
  /\ ProxyServer' = w.ProxyServer
  /\ config_file' = w.config_file
  /\ last' = w.last

\* ---------------------------------------------------------------- actions
\* ProxyToggleWidget.__init__: load, build one toggle per profile
\* (setup_ui), then update_ui.  A loaded value that is not a list raises
\* TypeError at len(self.proxies) and the process dies.
ProxyToggleWidget_init ==
  /\ pc = "start"
  /\ \E openFails \in BOOLEAN, saveFault \in SaveFaults, readFault \in BOOLEAN :
       LET w0 == [World EXCEPT !.last = [NoCall EXCEPT
                                           !.op = "__init__",
                                           !.loadKind = config_file.kind]]
           ld == load_proxies(w0, openFails, saveFault)
       IN IF ld.value.kind = "list"
          THEN LET w1 == [ld.w EXCEPT
                            !.proxies = ld.value.data,
                            !.proxy_toggles =
                               [i \in 1..Len(ld.value.data) |-> FALSE]]
               IN /\ pc' = "idle"
                  /\ Commit(update_ui(w1, readFault))
          ELSE /\ pc' = "crashed"
               /\ Commit([ld.w EXCEPT !.last.raised = "TypeError"])

\* ModernToggle.toggle of the toggle at index: flip is_on, then the
\* command, toggle_proxy(index).
toggle(index) ==
  /\ pc = "idle"
  /\ index \in 1..Len(proxies)
  /\ \E setFault \in SetFaults, saveFault \in SaveFaults, readFault \in BOOLEAN :
       LET pre == proxies[index].enabled
           streak == IF last.op = "toggle_proxy" /\ last.index = index
                        /\ last.streak = 1
                     THEN 2
                     ELSE IF ~pre THEN 1 ELSE 0
           clean == IF streak = 2
                    THEN last.clean /\ setFault = "none"
                    ELSE streak = 1 /\ setFault = "none" /\ ~readFault
           w0 == [World EXCEPT
                    !.proxy_toggles[index] = ~@,
                    !.last = [NoCall EXCEPT !.op = "toggle_proxy",
                                            !.index = index,
                                            !.streak = streak,
                                            !.clean = clean]]
       IN /\ pc' = pc
          /\ Commit(toggle_proxy(w0, index, setFault, saveFault, readFault))

\* update_ui called on its own (refreshFromSystem)
refreshFromSystem ==
  /\ pc = "idle"
  /\ \E readFault \in BOOLEAN :
       /\ pc' = pc
       /\ Commit(update_ui([World EXCEPT !.last = [NoCall EXCEPT !.op = "update_ui"]],
                           readFault))

\* ProxyToggleWidget.reload_config: the process is replaced by a new one
reload_config ==
  /\ pc = "idle"
  /\ pc' = "start"
  /\ proxies' = << >>
  /\ proxy_toggles' = << >>
  /\ last' = [NoCall EXCEPT !.op = "reload_config"]
  /\ UNCHANGED << ProxyEnable, ProxyServer, config_file >>

\* Another process or the control panel changes the registry pair between
\* two calls of this program.
ExternalProxyChange ==
  /\ pc = "idle"
  /\ \E en \in {0, 1}, srv \in RegistryServers :
       /\ << en, srv >> # << ProxyEnable, ProxyServer >>
       /\ ProxyEnable' = en
       /\ ProxyServer' = srv
  /\ last' = [NoCall EXCEPT !.op = "external"]
  /\ UNCHANGED << pc, proxies, proxy_toggles, config_file >>

Init ==
  /\ pc = "start"
  /\ proxies = << >>
  /\ proxy_toggles = << >>
  /\ ProxyEnable \in {0, 1}
  /\ ProxyServer \in RegistryServers
  /\ config_file \in FileContents
  /\ last = NoCall

Next ==
  \/ ProxyToggleWidget_init
  \/ \E index \in 1..MaxProfiles : toggle(index)
  \/ refreshFromSystem
  \/ reload_config
  \/ ExternalProxyChange

Spec == Init /\ [][Next]_vars

\* ------------------------------------------------------------ properties
Flags(ps) == [i \in 1..Len(ps) |-> ps[i].enabled]
EnabledSet == { i \in 1..Len(proxies) : proxies[i].enabled }
\* a call that ends with update_ui has returned to the main loop
Returned == pc = "idle" /\ last.op \in { "__init__", "toggle_proxy", "update_ui" }
RegistryPair == << ProxyEnable, ProxyServer >>

\* C1: after toggle_proxy or update_ui returns (also at the end of
\* __init__), at most one profile has enabled = TRUE, whatever the profile
\* list (two profiles may carry the same server) and the registry state.
C1_SingleActive == Returned => Cardinality(EnabledSet) <= 1

\* C2: when set_proxy fails during toggle_proxy(index), the enabled flags
\* after the call equal the flags before it and the call reports the
\* failure (ActivationError) to its caller.
C2_FailureRollback ==
  [][ (last'.op = "toggle_proxy" /\ ~last'.ret)
        => (Flags(proxies') = Flags(proxies) /\ last'.raised = "ActivationError") ]_vars

\* C3: when set_proxy fails during toggle_proxy(index), save_proxies is
\* not called and the config file is exactly as before the call.
C3_NoSaveOnFailure ==
  [][ (last'.op = "toggle_proxy" /\ ~last'.ret)
        => (last'.saves = 0 /\ config_file' = config_file) ]_vars

C5_ExclusiveSwitch ==
  [][ \A a \in 1..Len(proxies), b \in 1..Len(proxies) :
        ( /\ last'.op = "toggle_proxy" /\ last'.index = b
          /\ proxies[a].enabled /\ ~proxies[b].enabled
          /\ proxies[a].server # proxies[b].server
          /\ proxies[b].server # ""
          /\ last'.ret /\ last'.cur.some )
        => ( /\ last'.writes = 1
             /\ ProxyEnable' = 1 /\ ProxyServer' = proxies[b].server
             /\ { i \in 1..Len(proxies') : proxies'[i].enabled } = {b} ) ]_vars

\* C6 as stated: update_ui sets each enabled flag to (the registry read
\* reports the proxy enabled and the registry server string equals the
\* profile's server).
C6_Reconciliation ==
  Returned =>
    \A i \in 1..Len(proxies) :
      proxies[i].enabled =
        (last.cur.some /\ ProxyEnable # 0 /\ ProxyServer = proxies[i].server)

\* C6 amended: update_ui sets each enabled flag to (the registry read
\* reports the proxy enabled and the registry server string is not empty
\* and equals the profile's server); so with the proxy disabled, a failed
\* read or a server string that matches no profile, every flag is FALSE.
C6_ReconciliationNonEmpty ==
  Returned =>
    /\ \A i \in 1..Len(proxies) :
         proxies[i].enabled =
           (last.cur.some /\ ProxyEnable # 0 /\ ProxyServer # ""
              /\ ProxyServer = proxies[i].server)
    /\ ( \/ ProxyEnable = 0
         \/ ~last.cur.some
         \/ \A i \in 1..Len(proxies) : proxies[i].server # ProxyServer )
       => EnabledSet = {}

\* C6 witness: update_ui has marked one profile and left another unmarked.
C6_Witness ==
  /\ Returned /\ last.op = "update_ui"
  /\ \E i \in 1..Len(proxies) : proxies[i].enabled
  /\ \E j \in 1..Len(proxies) : ~proxies[j].enabled

\* C7: update_ui never changes the registry pair and never writes the
\* config file.
C7_RefreshReadOnly ==
  [][ last'.op = "update_ui"
        => ( /\ ProxyEnable' = ProxyEnable /\ ProxyServer' = ProxyServer
             /\ config_file' = config_file
             /\ last'.writes = 0 /\ last'.saves = 0 ) ]_vars

\* C7 witness: update_ui has run on its own, read an enabled proxy and the
\* flags in memory differ from the flags the file holds.
C7_Witness ==
  /\ pc = "idle" /\ last.op = "update_ui" /\ last.cur.some
  /\ config_file.kind = "list"
  /\ Flags(config_file.data) # Flags(proxies)

\* C8: load_proxies never crashes its caller; an absent file is seeded
\* with the defaults, which are returned; a malformed file (unparseable,
\* or parseable but not a list of profile objects) yields the defaults.
C8_LoadNeverCrashes ==
  last.op = "__init__" =>
    /\ pc # "crashed"
    /\ last.loadKind = "absent" => (last.saves = 1 /\ last.loaded = "defaults")
    /\ last.loadKind \in { "unparseable", "number" } => last.loaded = "defaults"

Request(arg) == IF arg.some THEN << 1, arg.val >> ELSE << 0, "" >>
RequestTruthy(arg) == IF Truthy(arg) THEN << 1, arg.val >> ELSE << 0, "" >>
\* the settings-changed notification comes after both registry writes
NotifiedAfterWrite(log) ==
  \E i, j, k \in 1..Len(log) :
    /\ log[i] = "ProxyEnable" /\ log[j] = "ProxyServer"
    /\ log[k] = "SETTINGS_CHANGED" /\ i < k /\ j < k

\* C9 as stated: when set_proxy reports success the registry pair equals
\* the request, (1, server) for Some(server) and (0, "") for None, and the
\* notification was issued after the write; when the call changed the
\* registry pair it does not report failure.
C9_WriteContract ==
  [][ last'.op = "toggle_proxy"
        => ( /\ last'.ret => ( /\ RegistryPair' = Request(last'.arg)
                               /\ NotifiedAfterWrite(last'.log) )
             /\ RegistryPair' # RegistryPair => last'.ret ) ]_vars

\* C9 amended: when set_proxy reports success the registry pair equals
\* the request, (1, server) for a non-empty server and (0, "") for None or
\* the empty string, and the notification was issued after the write; a
\* call that fails at OpenKey leaves the pair unchanged (a call that fails
\* later reports failure although it changed the pair).
C9_WriteContractOnSuccess ==
  [][ last'.op = "toggle_proxy"
        => ( /\ last'.ret => ( /\ RegistryPair' = RequestTruthy(last'.arg)
                               /\ NotifiedAfterWrite(last'.log) )
             /\ (~last'.ret /\ last'.log = << >>)
                  => RegistryPair' = RegistryPair ) ]_vars

\* C9 witness: a set_proxy(server) call reported success.
C9_Witness ==
  /\ pc = "idle" /\ last.op = "toggle_proxy"
  /\ last.ret /\ Truthy(last.arg)
  /\ RegistryPair = << 1, last.arg.val >>

\* C10: after __init__, toggle_proxy or update_ui returns, each profile's
\* enabled flag and its toggle's is_on equal (get_current_proxy returned a
\* non-empty string equal to the profile's server), the value returned
\* being the registry's at the end of the call; the file a toggle_proxy
\* call saved holds the flags of the toggle step, not the re-read ones.
C10_Mirror ==
  Returned =>
    /\ last.reads = 1
    /\ last.cur.some => (ProxyEnable # 0 /\ last.cur.val = ProxyServer)
    /\ \A i \in 1..Len(proxies) :
         LET m == Truthy(last.cur) /\ last.cur.val = proxies[i].server
         IN proxies[i].enabled = m /\ proxy_toggles[i] = m
    /\ Len(proxy_toggles) = Len(proxies)
    /\ (last.op = "toggle_proxy" /\ last.saved)
         => /\ config_file.kind = "list"
            /\ Flags(config_file.data) = last.stepped
            /\ last.stepped = [i \in 1..Len(proxies) |->
                                 i = last.index /\ last.toggled]
            /\ \A i \in 1..Len(proxies) :
                 /\ config_file.data[i].server = proxies[i].server
                 /\ config_file.data[i].name = proxies[i].name

\* C10 witness: a toggle_proxy call saved a list whose flags the re-read
\* then overwrote in memory.
C10_Witness ==
  /\ pc = "idle" /\ last.op = "toggle_proxy" /\ last.saved
  /\ config_file.kind = "list"
  /\ Flags(config_file.data) # Flags(proxies)
====
